---- MODULE Spec2Model ----
(***************************************************************************)
(* Model of sw_utils/consensus.py: the ExtendedAsyncBeacon client, which   *)
(* sends a read (GET validators) or a write (POST voluntary exit) to an    *)
(* ordered list of consensus endpoints, falling back to the next endpoint  *)
(* on a recoverable error, and the ValidatorStatus groups.                 *)
(*                                                                         *)
(* A call is a coroutine.  Its code between two awaits runs atomically, so *)
(* a call is modelled by one action that starts it (up to the first        *)
(* request being sent) and one action per way its request in flight can    *)
(* complete (up to the next request being sent, or the call ending).       *)
(***************************************************************************)
EXTENDS Integers, Sequences, FiniteSets, TLC

(* ------------------------------ bounds -------------------------------- *)

MaxUrls == 3             \* endpoints of a client running one call
MaxCalls == 2            \* calls running concurrently on one client
MaxStatuses == 2         \* validator statuses classified in one run

Calls == 1..MaxCalls

(* ------------------------------ inputs -------------------------------- *)

Urls == {"http://a", "http://b"}
BaseUrlLists(max) == UNION {[1..n -> Urls] : n \in 0..max}
TimeoutValues == {5, 60}
None == "None"
SharedSession == "shared"
FreshSession == "fresh"
Web3Session == "web3"
SessionValues == {None, SharedSession}
Epochs == {0, 12345}
ValidatorIndexes == {7, 10}
Signatures == {"0xabc"}
ValidatorIdLists == {<<"100", "200">>, <<"7">>}
StateIds == {"head", "finalized"}
Omitted == "<omitted>"

(* what an endpoint can answer to one request *)
Statuses == {200, 300, 400}
JsonBodies == {"{\"data\":1}", "{\"data\":2}"}
Bodies == JsonBodies \cup {"<html>"}
TransportErrors == {"TimeoutError", "MemoryError"}

(* ------------------------- ValidatorStatus ---------------------------- *)

ValidatorStatus ==
    {"pending_initialized", "pending_queued", "active_ongoing",
     "active_exiting", "active_slashed", "exited_unslashed",
     "exited_slashed", "withdrawal_possible", "withdrawal_done"}

PENDING_STATUSES == <<"pending_initialized", "pending_queued">>

(* the list with a status left out *)
ACTIVE_STATUSES_Incomplete == <<"active_ongoing", "active_exiting">>

ACTIVE_STATUSES == <<"active_ongoing", "active_exiting", "active_slashed">>

EXITED_STATUSES ==
    <<"exited_unslashed", "exited_slashed", "withdrawal_possible",
      "withdrawal_done">>

(* Python's `x in list` *)
In(x, list) == \E k \in 1..Len(list) : list[k] = x

(* the groups a status is a member of, by the three membership tests *)
GroupsOf(s) ==
    (IF In(s, PENDING_STATUSES) THEN {"PENDING"} ELSE {})
    \cup (IF In(s, ACTIVE_STATUSES) THEN {"ACTIVE"} ELSE {})
    \cup (IF In(s, EXITED_STATUSES) THEN {"EXITED"} ELSE {})

(* ------------------------------ helpers ------------------------------- *)

(* '/eth/v1/beacon/states/{0}/validators{1}'.format(a, b) *)
GET_VALIDATORS(a, b) == "/eth/v1/beacon/states/" \o a \o "/validators" \o b

GET_VOLUNTARY_EXITS == "/eth/v1/beacon/pool/voluntary_exits"

Digit(d) ==
    CASE d = 0 -> "0" [] d = 1 -> "1" [] d = 2 -> "2" [] d = 3 -> "3"
      [] d = 4 -> "4" [] d = 5 -> "5" [] d = 6 -> "6" [] d = 7 -> "7"
      [] d = 8 -> "8" [] d = 9 -> "9"

(* Python's str() of a non-negative int *)
RECURSIVE Str(_)
Str(n) == IF n < 10 THEN Digit(n) ELSE Str(n \div 10) \o Digit(n % 10)

(* Python's sep.join(list) *)
RECURSIVE Join(_, _)
Join(sep, list) ==
    IF Len(list) = 0 THEN ""
    ELSE IF Len(list) = 1 THEN list[1]
    ELSE list[1] \o sep \o Join(sep, Tail(list))

(* sw_utils.common.urljoin: base + path *)
urljoin(url, path) == url \o path

(* the parameter state_id: str = 'head' *)
StateIdArg(state_id) == IF state_id = Omitted THEN "head" ELSE state_id

(* the path with the identifiers in one comma-separated id parameter *)
ValidatorsEndpoint_CommaSeparated(validator_ids, state_id) ==
    GET_VALIDATORS(state_id, "?id=" \o Join(",", validator_ids))

(* the endpoint path built by get_validators_by_ids *)
ValidatorsEndpoint(validator_ids, state_id) ==
    GET_VALIDATORS(state_id, "?id=" \o Join("&id=", validator_ids))

(* the body with the two numbers in each other's place *)
ExitData_Swapped(epoch, validator_index, signature) ==
    [message |-> [epoch |-> Str(validator_index),
                  validator_index |-> Str(epoch)],
     signature |-> signature]

(* the JSON body built by submit_voluntary_exit *)
ExitData(epoch, validator_index, signature) ==
    [message |-> [epoch |-> Str(epoch),
                  validator_index |-> Str(validator_index)],
     signature |-> signature]

(* Python values: a dict is its set of items *)
NoneValue == [type |-> "NoneType", items |-> {}]
EmptyDict == [type |-> "dict", items |-> {}]

(* response.json(): the body decoded, when it is JSON *)
IsJson(body) == body \in JsonBodies
Decode(body) ==
    CASE body = "{\"data\":1}" -> [type |-> "dict", items |-> {<<"data", 1>>}]
      [] body = "{\"data\":2}" -> [type |-> "dict", items |-> {<<"data", 2>>}]

(* raising for server errors only *)
RaisesForStatus_ServerErrorsOnly(status) == status >= 500

(* response.raise_for_status() raises for a status of 400 and above *)
RaisesForStatus(status) == status >= 400

(* the exception classes of AiohttpRecoveredErrors *)
AiohttpRecoveredErrors ==
    {"TimeoutError", "ClientResponseError", "ContentTypeError"}

(* an exception object: its class, the HTTP status it carries and the    *)
(* attempt (position in base_urls) whose request raised it               *)
NoError == [type |-> None, status |-> 0, attempt |-> -1]
Error(type, status, i) == [type |-> type, status |-> status, attempt |-> i]

NoResult == [kind |-> "none", value |-> NoneValue, error |-> NoError]
Return(value) == [kind |-> "return", value |-> value, error |-> NoError]
Raise(error) == [kind |-> "raise", value |-> NoneValue, error |-> error]

(* ------------------------------- state -------------------------------- *)

VARIABLES
    base_urls,      \* self.base_urls
    timeout,        \* self.timeout
    session,        \* self.session
    sharedClosed,   \* whether the session given at construction was closed
    op,             \* op[c]: the operation call c runs
    pc,             \* pc[c]: where call c is
    args,           \* args[c]: the arguments of call c
    idx,            \* idx[c]: the loop variable i of call c
    data,           \* data[c]: the endpoint path (read) or JSON data (write)
    attempts,       \* attempts[c]: the requests call c has sent, in order
    freshOpen,      \* freshOpen[c]: sessions opened by call c and still open
    result,         \* result[c]: what call c returned or raised
    log,            \* log[c]: the error-level records call c has logged
    statuses,       \* validator statuses to classify
    groups          \* groups[k]: the groups statuses[k] was found in

config == <<base_urls, timeout, session>>
callVars == <<op, pc, args, idx, data, attempts, freshOpen, result, log>>
statusVars == <<statuses, groups>>
vars == <<config, sharedClosed, callVars, statusVars>>

(* ExtendedAsyncBeacon.__init__ / get_consensus_client *)
InitClient(max) ==
    /\ base_urls \in BaseUrlLists(max)
    /\ timeout \in TimeoutValues
    /\ session \in SessionValues
    /\ sharedClosed = FALSE

InitCalls ==
    /\ op = [c \in Calls |-> "none"]
    /\ pc = [c \in Calls |-> "idle"]
    /\ args = [c \in Calls |-> [none |-> TRUE]]
    /\ idx = [c \in Calls |-> 0]
    /\ data = [c \in Calls |-> [path |-> "", json |-> NoneValue]]
    /\ attempts = [c \in Calls |-> <<>>]
    /\ freshOpen = [c \in Calls |-> 0]
    /\ result = [c \in Calls |-> NoResult]
    /\ log = [c \in Calls |-> <<>>]

InitStatuses ==
    /\ statuses = <<>>
    /\ groups = <<>>

Init ==
    /\ InitClient(MaxUrls)
    /\ InitCalls
    /\ InitStatuses

(* ------------------------------ requests ------------------------------ *)

(* a request sent by a call and, once it completed, what came of it *)
Request(i, uri, method, timeouts, sess, json) ==
    [i |-> i, url |-> base_urls[i + 1], uri |-> uri, method |-> method,
     timeouts |-> timeouts, session |-> sess, json |-> json,
     done |-> FALSE, status |-> 0, body |-> "", error |-> NoError]

InFlight(c) == {k \in 1..Len(attempts[c]) : ~attempts[c][k].done}

(* the request of call c in flight completes with a status, body or error *)
Completed(c, status, body, error) ==
    [attempts[c] EXCEPT ![Len(attempts[c])] =
        [@ EXCEPT !.done = TRUE, !.status = status, !.body = body,
                  !.error = error]]

(* the GET sent to the primary endpoint whatever the iteration *)
GetRequest_Primary(i, endpoint_uri) ==
    Request(0, urljoin(base_urls[1], endpoint_uri), "GET", {timeout},
            IF session # None THEN SharedSession ELSE Web3Session, NoneValue)

(* the GET of iteration i of _async_make_get_request, through            *)
(* _make_session_get_request when a session was given and through        *)
(* async_json_make_get_request otherwise                                 *)
GetRequest(i, endpoint_uri) ==
    Request(i, urljoin(base_urls[i + 1], endpoint_uri), "GET", {timeout},
            IF session # None THEN SharedSession ELSE Web3Session, NoneValue)

(* the POST sent through the session given at construction *)
PostRequest_SharedSession(i, json) ==
    Request(i, urljoin(base_urls[i + 1], GET_VOLUNTARY_EXITS), "POST", {},
            SharedSession, json)

(* the POST of iteration i of submit_voluntary_exit, in a new session *)
PostRequest(i, json) ==
    Request(i, urljoin(base_urls[i + 1], GET_VOLUNTARY_EXITS), "POST", {},
            FreshSession, json)

(* the record written at warning level *)
LogRecord_Warning(url, error) ==
    [level |-> "WARNING", url |-> url, error |-> error]

(* the record logger.error('%s: %s', url, repr(error)) writes *)
LogRecord(url, error) == [level |-> "ERROR", url |-> url, error |-> error]

(* ----------------------------- read call ------------------------------ *)

(* leaving a block that was entered on the session itself, which closes  *)
(* the session                                                           *)
LeaveGet_ClosesSession(closed) == closed \/ session # None

(* leaving `async with self.session.get(...) as response`: the response  *)
(* is released and the session given at construction is left as it was   *)
LeaveGet(closed) == closed

(* the loop raising on an empty list instead of returning {} *)
GetLoop_RaisesOnEmpty(c, i, sent, endpoint_uri) ==
    IF i < Len(base_urls)
    THEN /\ idx' = [idx EXCEPT ![c] = i]
         /\ attempts' = [attempts EXCEPT ![c] =
                            Append(sent, GetRequest(i, endpoint_uri))]
         /\ pc' = [pc EXCEPT ![c] = "inflight"]
         /\ result' = result
    ELSE /\ idx' = idx
         /\ attempts' = [attempts EXCEPT ![c] = sent]
         /\ pc' = [pc EXCEPT ![c] = "done"]
         /\ result' = [result EXCEPT ![c] = Raise(Error("ValueError", 0, -1))]

(* the loop starting at the endpoint the client reached last, kept on    *)
(* the client and shared by its calls                                    *)
GetLoop_StickyEndpoint(c, i, sent, endpoint_uri) ==
    LET reached == CHOOSE m \in {idx[d] : d \in Calls} :
                       \A d \in Calls : idx[d] <= m
        j == IF i > reached THEN i ELSE reached
    IN  IF j < Len(base_urls)
        THEN /\ idx' = [idx EXCEPT ![c] = j]
             /\ attempts' = [attempts EXCEPT ![c] =
                                Append(sent, GetRequest(j, endpoint_uri))]
             /\ pc' = [pc EXCEPT ![c] = "inflight"]
             /\ result' = result
        ELSE /\ idx' = idx
             /\ attempts' = [attempts EXCEPT ![c] = sent]
             /\ pc' = [pc EXCEPT ![c] = "done"]
             /\ result' = [result EXCEPT ![c] = Return(EmptyDict)]

(* the for loop of _async_make_get_request from iteration i on, up to    *)
(* its first await: the request to base_urls[i], or `return {}`          *)
GetLoop(c, i, sent, endpoint_uri) ==
    IF i < Len(base_urls)
    THEN /\ idx' = [idx EXCEPT ![c] = i]
         /\ attempts' = [attempts EXCEPT ![c] = Append(sent, GetRequest(i, endpoint_uri))]
         /\ pc' = [pc EXCEPT ![c] = "inflight"]
         /\ result' = result
    ELSE /\ idx' = idx
         /\ attempts' = [attempts EXCEPT ![c] = sent]
         /\ pc' = [pc EXCEPT ![c] = "done"]
         /\ result' = [result EXCEPT ![c] = Return(EmptyDict)]

(* get_validators_by_ids(validator_ids, state_id) *)
get_validators_by_ids(c, validator_ids, state_id) ==
    /\ pc[c] = "idle"
    /\ args' = [args EXCEPT ![c] =
                   [validator_ids |-> validator_ids, state_id |-> state_id]]
    /\ data' = [data EXCEPT ![c] =
                   [path |-> ValidatorsEndpoint(validator_ids,
                                                StateIdArg(state_id)),
                    json |-> NoneValue]]
    /\ op' = [op EXCEPT ![c] = "read"]
    /\ GetLoop(c, 0, attempts[c],
               ValidatorsEndpoint(validator_ids, StateIdArg(state_id)))
    /\ UNCHANGED <<config, sharedClosed, freshOpen, log, statusVars>>

(* the except clause re-raising at the first endpoint, not at the last *)
GetRaised_AtFirst(c, sent, error) ==
    IF error.type \in AiohttpRecoveredErrors
    THEN IF idx[c] = 0
         THEN /\ result' = [result EXCEPT ![c] = Raise(error)]
              /\ pc' = [pc EXCEPT ![c] = "done"]
              /\ attempts' = [attempts EXCEPT ![c] = sent]
              /\ UNCHANGED <<idx, log>>
         ELSE /\ log' = [log EXCEPT ![c] =
                            Append(@, LogRecord(base_urls[idx[c] + 1], error))]
              /\ GetLoop(c, idx[c] + 1, sent, data[c].path)
    ELSE /\ result' = [result EXCEPT ![c] = Raise(error)]
         /\ pc' = [pc EXCEPT ![c] = "done"]
         /\ attempts' = [attempts EXCEPT ![c] = sent]
         /\ UNCHANGED <<idx, log>>

(* the except clause logging the failure of an endpoint twice *)
GetRaised_LogsTwice(c, sent, error) ==
    IF error.type \in AiohttpRecoveredErrors
    THEN IF idx[c] = Len(base_urls) - 1
         THEN /\ result' = [result EXCEPT ![c] = Raise(error)]
              /\ pc' = [pc EXCEPT ![c] = "done"]
              /\ attempts' = [attempts EXCEPT ![c] = sent]
              /\ UNCHANGED <<idx, log>>
         ELSE /\ log' = [log EXCEPT ![c] =
                            @ \o << LogRecord(base_urls[idx[c] + 1], error),
                                    LogRecord(base_urls[idx[c] + 1], error) >>]
              /\ GetLoop(c, idx[c] + 1, sent, data[c].path)
    ELSE /\ result' = [result EXCEPT ![c] = Raise(error)]
         /\ pc' = [pc EXCEPT ![c] = "done"]
         /\ attempts' = [attempts EXCEPT ![c] = sent]
         /\ UNCHANGED <<idx, log>>

(* the except clause catching every error, as `except Exception` would *)
GetRaised_CatchesAll(c, sent, error) ==
    IF idx[c] = Len(base_urls) - 1
    THEN /\ result' = [result EXCEPT ![c] = Raise(error)]
         /\ pc' = [pc EXCEPT ![c] = "done"]
         /\ attempts' = [attempts EXCEPT ![c] = sent]
         /\ UNCHANGED <<idx, log>>
    ELSE /\ log' = [log EXCEPT ![c] =
                       Append(@, LogRecord(base_urls[idx[c] + 1], error))]
         /\ GetLoop(c, idx[c] + 1, sent, data[c].path)

(* the except clause trying the endpoint that failed again *)
GetRaised_RetriesEndpoint(c, sent, error) ==
    IF error.type \in AiohttpRecoveredErrors
    THEN IF idx[c] = Len(base_urls) - 1
         THEN /\ result' = [result EXCEPT ![c] = Raise(error)]
              /\ pc' = [pc EXCEPT ![c] = "done"]
              /\ attempts' = [attempts EXCEPT ![c] = sent]
              /\ UNCHANGED <<idx, log>>
         ELSE /\ log' = [log EXCEPT ![c] =
                            Append(@, LogRecord(base_urls[idx[c] + 1], error))]
              /\ GetLoop(c, idx[c], sent, data[c].path)
    ELSE /\ result' = [result EXCEPT ![c] = Raise(error)]
         /\ pc' = [pc EXCEPT ![c] = "done"]
         /\ attempts' = [attempts EXCEPT ![c] = sent]
         /\ UNCHANGED <<idx, log>>

(* the except clause of _async_make_get_request for an error raised by   *)
(* the request of iteration idx[c]                                       *)
GetRaised(c, sent, error) ==
    IF error.type \in AiohttpRecoveredErrors
    THEN IF idx[c] = Len(base_urls) - 1
         THEN /\ result' = [result EXCEPT ![c] = Raise(error)]
              /\ pc' = [pc EXCEPT ![c] = "done"]
              /\ attempts' = [attempts EXCEPT ![c] = sent]
              /\ UNCHANGED <<idx, log>>
         ELSE /\ log' = [log EXCEPT ![c] =
                            Append(@, LogRecord(base_urls[idx[c] + 1], error))]
              /\ GetLoop(c, idx[c] + 1, sent, data[c].path)
    ELSE /\ result' = [result EXCEPT ![c] = Raise(error)]
         /\ pc' = [pc EXCEPT ![c] = "done"]
         /\ attempts' = [attempts EXCEPT ![c] = sent]
         /\ UNCHANGED <<idx, log>>

(* the GET in flight is answered: raise_for_status(), response.json()    *)
(* and `return`, or the error one of them raises                         *)
GetResponse(c) ==
    /\ pc[c] = "inflight" /\ op[c] = "read"
    /\ \E status \in Statuses, body \in Bodies :
          IF RaisesForStatus(status)
          THEN LET error == Error("ClientResponseError", status, idx[c])
               IN  GetRaised(c, Completed(c, status, "", error), error)
          ELSE IF ~IsJson(body)
          THEN LET error == Error("ContentTypeError", status, idx[c])
               IN  GetRaised(c, Completed(c, status, body, error), error)
          ELSE /\ result' = [result EXCEPT ![c] = Return(Decode(body))]
               /\ pc' = [pc EXCEPT ![c] = "done"]
               /\ attempts' = [attempts EXCEPT ![c] =
                                  Completed(c, status, body, NoError)]
               /\ UNCHANGED <<idx, log>>
    /\ sharedClosed' = LeaveGet(sharedClosed)
    /\ UNCHANGED <<config, op, args, data, freshOpen, statusVars>>

(* the GET in flight gets no answer: the transport raises *)
GetTransportError(c) ==
    /\ pc[c] = "inflight" /\ op[c] = "read"
    /\ \E type \in TransportErrors :
          LET error == Error(type, 0, idx[c])
          IN  GetRaised(c, Completed(c, 0, "", error), error)
    /\ sharedClosed' = LeaveGet(sharedClosed)
    /\ UNCHANGED <<config, op, args, data, freshOpen, statusVars>>

(* ----------------------------- write call ----------------------------- *)

(* the for loop of submit_voluntary_exit from iteration i on, up to its  *)
(* first await: a new session and the POST to base_urls[i], or the end   *)
(* of the function; open is the number of sessions the call has open     *)
PostLoop(c, i, sent, open, json) ==
    IF i < Len(base_urls)
    THEN /\ idx' = [idx EXCEPT ![c] = i]
         /\ freshOpen' = [freshOpen EXCEPT ![c] = open + 1]
         /\ attempts' = [attempts EXCEPT ![c] = Append(sent, PostRequest(i, json))]
         /\ pc' = [pc EXCEPT ![c] = "inflight"]
         /\ result' = result
    ELSE /\ idx' = idx
         /\ freshOpen' = [freshOpen EXCEPT ![c] = open]
         /\ attempts' = [attempts EXCEPT ![c] = sent]
         /\ pc' = [pc EXCEPT ![c] = "done"]
         /\ result' = [result EXCEPT ![c] = Return(NoneValue)]

(* submit_voluntary_exit(epoch, validator_index, signature) *)
submit_voluntary_exit(c, epoch, validator_index, signature) ==
    /\ pc[c] = "idle"
    /\ args' = [args EXCEPT ![c] =
                   [epoch |-> epoch, validator_index |-> validator_index,
                    signature |-> signature]]
    /\ data' = [data EXCEPT ![c] =
                   [path |-> GET_VOLUNTARY_EXITS,
                    json |-> ExitData(epoch, validator_index, signature)]]
    /\ op' = [op EXCEPT ![c] = "write"]
    /\ PostLoop(c, 0, attempts[c], freshOpen[c],
                ExitData(epoch, validator_index, signature))
    /\ UNCHANGED <<config, sharedClosed, log, statusVars>>

(* the except clause logging the error of the last endpoint instead of   *)
(* re-raising it, so that the function ends and returns None             *)
PostRaised_Swallows(c, sent, error) ==
    IF error.type \in AiohttpRecoveredErrors
    THEN /\ log' = [log EXCEPT ![c] =
                       Append(@, LogRecord(base_urls[idx[c] + 1], error))]
         /\ PostLoop(c, idx[c] + 1, sent, freshOpen[c] - 1, data[c].json)
    ELSE /\ result' = [result EXCEPT ![c] = Raise(error)]
         /\ pc' = [pc EXCEPT ![c] = "done"]
         /\ attempts' = [attempts EXCEPT ![c] = sent]
         /\ freshOpen' = [freshOpen EXCEPT ![c] = @ - 1]
         /\ UNCHANGED <<idx, log>>

(* the except clause catching every error, cancellation included, as a  *)
(* bare `except` would                                                   *)
PostRaised_CatchesAll(c, sent, error) ==
    IF idx[c] = Len(base_urls) - 1
    THEN /\ result' = [result EXCEPT ![c] = Raise(error)]
         /\ pc' = [pc EXCEPT ![c] = "done"]
         /\ attempts' = [attempts EXCEPT ![c] = sent]
         /\ freshOpen' = [freshOpen EXCEPT ![c] = @ - 1]
         /\ UNCHANGED <<idx, log>>
    ELSE /\ log' = [log EXCEPT ![c] =
                       Append(@, LogRecord(base_urls[idx[c] + 1], error))]
         /\ PostLoop(c, idx[c] + 1, sent, freshOpen[c] - 1, data[c].json)

(* the except clause of submit_voluntary_exit for an error raised by the *)
(* request of iteration idx[c]; its session was closed on the way out of *)
(* the `async with`                                                      *)
PostRaised(c, sent, error) ==
    IF error.type \in AiohttpRecoveredErrors
    THEN IF idx[c] = Len(base_urls) - 1
         THEN /\ result' = [result EXCEPT ![c] = Raise(error)]
              /\ pc' = [pc EXCEPT ![c] = "done"]
              /\ attempts' = [attempts EXCEPT ![c] = sent]
              /\ freshOpen' = [freshOpen EXCEPT ![c] = @ - 1]
              /\ UNCHANGED <<idx, log>>
         ELSE /\ log' = [log EXCEPT ![c] =
                            Append(@, LogRecord(base_urls[idx[c] + 1], error))]
              /\ PostLoop(c, idx[c] + 1, sent, freshOpen[c] - 1, data[c].json)
    ELSE /\ result' = [result EXCEPT ![c] = Raise(error)]
         /\ pc' = [pc EXCEPT ![c] = "done"]
         /\ attempts' = [attempts EXCEPT ![c] = sent]
         /\ freshOpen' = [freshOpen EXCEPT ![c] = @ - 1]
         /\ UNCHANGED <<idx, log>>

(* the POST answered, with no `return` after raise_for_status(): the     *)
(* loop goes on to the next endpoint                                     *)
PostResponse_NoReturn(c) ==
    /\ pc[c] = "inflight" /\ op[c] = "write"
    /\ \E status \in Statuses :
          IF RaisesForStatus(status)
          THEN LET error == Error("ClientResponseError", status, idx[c])
               IN  PostRaised(c, Completed(c, status, "", error), error)
          ELSE /\ PostLoop(c, idx[c] + 1, Completed(c, status, "", NoError),
                           freshOpen[c] - 1, data[c].json)
               /\ UNCHANGED log
    /\ UNCHANGED <<config, sharedClosed, op, args, data, statusVars>>

(* the POST in flight is answered: raise_for_status() and `return`, or   *)
(* the error it raises                                                   *)
PostResponse(c) ==
    /\ pc[c] = "inflight" /\ op[c] = "write"
    /\ \E status \in Statuses :
          IF RaisesForStatus(status)
          THEN LET error == Error("ClientResponseError", status, idx[c])
               IN  PostRaised(c, Completed(c, status, "", error), error)
          ELSE /\ result' = [result EXCEPT ![c] = Return(NoneValue)]
               /\ pc' = [pc EXCEPT ![c] = "done"]
               /\ attempts' = [attempts EXCEPT ![c] =
                                  Completed(c, status, "", NoError)]
               /\ freshOpen' = [freshOpen EXCEPT ![c] = @ - 1]
               /\ UNCHANGED <<idx, log>>
    /\ UNCHANGED <<config, sharedClosed, op, args, data, statusVars>>

(* the POST in flight gets no answer: the transport raises *)
PostTransportError(c) ==
    /\ pc[c] = "inflight" /\ op[c] = "write"
    /\ \E type \in TransportErrors :
          LET error == Error(type, 0, idx[c])
          IN  PostRaised(c, Completed(c, 0, "", error), error)
    /\ UNCHANGED <<config, sharedClosed, op, args, data, statusVars>>

(* --------------------------- cancellation ----------------------------- *)

(* the task of call c is cancelled while it awaits its request:          *)
(* CancelledError is raised at the await and handled as any other error  *)
Cancel(c) ==
    /\ pc[c] = "inflight"
    /\ LET error == Error("CancelledError", 0, idx[c])
       IN  IF op[c] = "read"
           THEN /\ GetRaised(c, Completed(c, 0, "", error), error)
                /\ sharedClosed' = LeaveGet(sharedClosed)
                /\ UNCHANGED freshOpen
           ELSE /\ PostRaised(c, Completed(c, 0, "", error), error)
                /\ UNCHANGED sharedClosed
    /\ UNCHANGED <<config, op, args, data, statusVars>>

(* ------------------------- status groups ------------------------------ *)

(* the next status is tested for membership in the three groups *)
Classify ==
    /\ Len(groups) < Len(statuses)
    /\ groups' = Append(groups, GroupsOf(statuses[Len(groups) + 1]))
    /\ UNCHANGED <<config, sharedClosed, callVars, statuses>>

(* --------------------------- specifications --------------------------- *)

(* a step of a call that is running *)
Step(c) ==
    \/ GetResponse(c)
    \/ GetTransportError(c)
    \/ PostResponse(c)
    \/ PostTransportError(c)
    \/ Cancel(c)

(* one call on a client, with any arguments *)
Next ==
    \/ \E validator_ids \in ValidatorIdLists,
          state_id \in StateIds \cup {Omitted} :
          get_validators_by_ids(1, validator_ids, state_id)
    \/ \E epoch \in Epochs, validator_index \in ValidatorIndexes,
          signature \in Signatures :
          submit_voluntary_exit(1, epoch, validator_index, signature)
    \/ Step(1)

Spec == Init /\ [][Next]_vars

(* one call on a client whose every request in flight is answered, by a  *)
(* response, an error or a cancellation                                  *)
InitLive == Init /\ timeout = 60

SpecLive == InitLive /\ [][Next]_vars /\ WF_vars(Step(1))

(* calls running concurrently on one client with a primary and a         *)
(* fallback endpoint and the default timeout                             *)
InitConcurrent ==
    /\ base_urls = <<"http://a", "http://b">>
    /\ timeout = 60
    /\ session \in SessionValues
    /\ sharedClosed = FALSE
    /\ InitCalls
    /\ InitStatuses

NextConcurrent ==
    \E c \in Calls :
        \/ get_validators_by_ids(c, <<"100", "200">>, "head")
        \/ submit_voluntary_exit(c, 12345, 7, "0xabc")
        \/ Step(c)

SpecConcurrent == InitConcurrent /\ [][NextConcurrent]_vars

(* the membership tests of the status groups, on every list of statuses *)
InitStatus ==
    /\ base_urls = <<>> /\ timeout \in TimeoutValues /\ session = None
    /\ sharedClosed = FALSE
    /\ InitCalls
    /\ statuses \in UNION {[1..n -> ValidatorStatus] : n \in 1..MaxStatuses}
    /\ groups = <<>>

NextStatus == Classify

SpecStatus == InitStatus /\ [][NextStatus]_vars

(* ------------------------------ properties ---------------------------- *)

Finished(c) == pc[c] = "done"
Sent(c) == attempts[c]
LastSent(c) == attempts[c][Len(attempts[c])]

(* the request was answered by an error of the recoverable set *)
FailedRecoverably(a) == a.done /\ a.error.type \in AiohttpRecoveredErrors

(* the request was answered by a 2xx response the client could use *)
Succeeded(a) == a.done /\ a.error = NoError /\ a.status \in 200..299

(* every endpoint of the list was asked and every one failed recoverably *)
EveryEndpointFailed(c) ==
    /\ Finished(c)
    /\ \A k \in 1..Len(Sent(c)) : FailedRecoverably(Sent(c)[k])
    /\ \A k \in 1..Len(base_urls) :
          k <= Len(Sent(c)) => Sent(c)[k].url = base_urls[k]

(* the call raised the error of its request to the last endpoint *)
RaisedLastError(c) ==
    /\ result[c].kind = "raise"
    /\ Len(Sent(c)) = Len(base_urls)
    /\ LastSent(c).i = Len(base_urls) - 1
    /\ result[c].error = LastSent(c).error
    /\ result[c].error.attempt = Len(base_urls) - 1

(* C1, as stated: for every endpoint list, the empty one included, a read *)
(* whose every endpoint fails recoverably raises the error of the last    *)
(* endpoint of the list.                                                  *)
C1_AnyListRaisesLastError ==
    \A c \in Calls :
        (op[c] = "read" /\ EveryEndpointFailed(c)) => RaisedLastError(c)

(* C1, amended: for every non-empty endpoint list, a read whose every     *)
(* endpoint fails recoverably raises the error of the last endpoint of    *)
(* the list, not the error of an earlier one.                             *)
C1_ReadRaisesLastError ==
    \A c \in Calls :
        (op[c] = "read" /\ Len(base_urls) > 0 /\ EveryEndpointFailed(c))
            => RaisedLastError(c)

C1_Witness ==
    \E c \in Calls :
        /\ op[c] = "read" /\ Len(base_urls) >= 2 /\ EveryEndpointFailed(c)
        /\ Len(Sent(c)) = Len(base_urls)
        /\ result[c].kind = "raise"
        /\ Sent(c)[1].error.type # LastSent(c).error.type

(* every endpoint but the last failed recoverably and the last succeeded *)
OnlyLastSucceeded(c) ==
    /\ Finished(c)
    /\ Len(base_urls) > 0
    /\ Len(Sent(c)) = Len(base_urls)
    /\ \A k \in 1..(Len(Sent(c)) - 1) : FailedRecoverably(Sent(c)[k])
    /\ Succeeded(LastSent(c))

(* C2: when every endpoint but the last fails recoverably and the last    *)
(* succeeds, a read returns the decoded response of the last endpoint and *)
(* its log holds exactly one error record per preceding endpoint, in      *)
(* order, with that endpoint's url and error.                             *)
C2_ReturnsLastResponseLogsEachFailure ==
    \A c \in Calls :
        (op[c] = "read" /\ OnlyLastSucceeded(c)) =>
            /\ result[c] = Return(Decode(LastSent(c).body))
            /\ LastSent(c).url = base_urls[Len(base_urls)]
            /\ Len(log[c]) = Len(base_urls) - 1
            /\ \A k \in 1..Len(log[c]) :
                  log[c][k] = LogRecord(base_urls[k], Sent(c)[k].error)

C2_Witness ==
    \E c \in Calls :
        /\ op[c] = "read" /\ OnlyLastSucceeded(c)
        /\ Len(base_urls) = 3
        /\ Len(log[c]) = 2
        /\ result[c].kind = "return"

(* C3: a read sends its requests in list order, the request to endpoint i *)
(* only after the requests to endpoints 0..i-1 each ended in a            *)
(* recoverable failure, and it never has two requests in flight.          *)
C3_InOrderOneAtATime ==
    \A c \in Calls :
        op[c] = "read" =>
            /\ Cardinality(InFlight(c)) <= 1
            /\ Len(Sent(c)) <= Len(base_urls)
            /\ \A k \in 1..Len(Sent(c)) :
                  /\ Sent(c)[k].i = k - 1
                  /\ Sent(c)[k].url = base_urls[k]
                  /\ Sent(c)[k].uri = urljoin(base_urls[k], data[c].path)
                  /\ \A j \in 1..(k - 1) : FailedRecoverably(Sent(c)[j])

C3_Witness ==
    \E c \in Calls :
        /\ op[c] = "read"
        /\ Len(Sent(c)) = 3
        /\ InFlight(c) = {3}

(* C4: once a request of a read or a write succeeded, the call has        *)
(* returned and that request is the last one the call sent.               *)
C4_ReturnsOnFirstSuccess ==
    \A c \in Calls :
        \A k \in 1..Len(Sent(c)) :
            (Sent(c)[k].done /\ Sent(c)[k].error = NoError) =>
                /\ Finished(c)
                /\ result[c].kind = "return"
                /\ k = Len(Sent(c))

C4_Witness ==
    \E c \in Calls :
        /\ op[c] = "write"
        /\ Finished(c)
        /\ Len(Sent(c)) = 1 /\ Len(base_urls) = 3
        /\ Succeeded(Sent(c)[1])

C4_WitnessRead ==
    \E c \in Calls :
        /\ op[c] = "read"
        /\ Finished(c)
        /\ Len(Sent(c)) = 2 /\ Len(base_urls) = 3
        /\ Succeeded(Sent(c)[2])

(* the decimal numerals of the epochs and validator indexes submitted *)
Numeral == (0 :> "0") @@ (7 :> "7") @@ (10 :> "10") @@ (12345 :> "12345")

(* the body a voluntary exit is to be sent with *)
ExitBody(a) ==
    [message |-> [epoch |-> Numeral[a.epoch],
                  validator_index |-> Numeral[a.validator_index]],
     signature |-> a.signature]

(* C5: in a write, a recoverable failure of the request to an endpoint    *)
(* that is not the last is followed by a POST to the next endpoint, and   *)
(* every request of the call carries the same body: the epoch and the     *)
(* validator index as decimal strings and the signature as given.         *)
C5_WriteFailsOverWithSameBody ==
    \A c \in Calls :
        op[c] = "write" =>
            \A k \in 1..Len(Sent(c)) :
                /\ Sent(c)[k].method = "POST"
                /\ Sent(c)[k].json = ExitBody(args[c])
                /\ Sent(c)[k].uri = urljoin(base_urls[k], GET_VOLUNTARY_EXITS)
                /\ (FailedRecoverably(Sent(c)[k]) /\ k < Len(base_urls))
                      => Len(Sent(c)) >= k + 1

C5_Witness ==
    \E c \in Calls :
        /\ op[c] = "write"
        /\ args[c].epoch = 12345 /\ args[c].validator_index = 7
        /\ Len(Sent(c)) >= 2
        /\ Sent(c)[1].error = Error("ClientResponseError", 400, 0)
        /\ Sent(c)[2].url = base_urls[2]
        /\ Sent(c)[2].json.message.epoch = "12345"

(* C6: a write on a non-empty endpoint list whose every endpoint fails    *)
(* recoverably raises the error of its request to the last endpoint; it   *)
(* does not return.                                                       *)
C6_WriteRaisesLastError ==
    \A c \in Calls :
        (op[c] = "write" /\ Len(base_urls) > 0 /\ EveryEndpointFailed(c))
            => (RaisedLastError(c) /\ result[c].kind # "return")

C6_Witness ==
    \E c \in Calls :
        /\ op[c] = "write" /\ Len(base_urls) >= 2 /\ EveryEndpointFailed(c)
        /\ Len(Sent(c)) = Len(base_urls)
        /\ result[c].kind = "raise"
        /\ Sent(c)[1].error.type # LastSent(c).error.type

(* C7: a read on an empty endpoint list returns an empty dict, raises     *)
(* nothing and sends no request.                                          *)
C7_EmptyListReadReturnsEmpty ==
    \A c \in Calls :
        (op[c] = "read" /\ Len(base_urls) = 0) =>
            /\ Finished(c)
            /\ result[c] = Return(EmptyDict)
            /\ Sent(c) = <<>>
            /\ log[c] = <<>>

C7_Witness ==
    \E c \in Calls :
        /\ op[c] = "read" /\ base_urls = <<>>
        /\ Finished(c)
        /\ result[c].kind = "return"

(* C8: a write on an empty endpoint list fails with an error; it does not *)
(* return as if the exit had been submitted.                              *)
C8_EmptyListWriteRaises ==
    \A c \in Calls :
        (op[c] = "write" /\ Len(base_urls) = 0 /\ Finished(c))
            => result[c].kind = "raise"

(* C9: every request of a read and of a write is sent with the timeout    *)
(* given at construction.                                                 *)
C9_EveryRequestHasConfiguredTimeout ==
    \A c \in Calls :
        \A k \in 1..Len(Sent(c)) : Sent(c)[k].timeouts = {timeout}

(* the elements of a list *)
Elements(list) == {list[k] : k \in 1..Len(list)}

(* C10: every ValidatorStatus value is in exactly one of PENDING_STATUSES, *)
(* ACTIVE_STATUSES and EXITED_STATUSES: every status tested is found in    *)
(* one group, the groups are pairwise disjoint and their union is the      *)
(* nine values of the enumeration.                                         *)
C10_StatusInExactlyOneGroup ==
    /\ \A k \in 1..Len(groups) : Cardinality(groups[k]) = 1
    /\ Elements(PENDING_STATUSES) \cap Elements(ACTIVE_STATUSES) = {}
    /\ Elements(PENDING_STATUSES) \cap Elements(EXITED_STATUSES) = {}
    /\ Elements(ACTIVE_STATUSES) \cap Elements(EXITED_STATUSES) = {}
    /\ Elements(PENDING_STATUSES) \cup Elements(ACTIVE_STATUSES)
          \cup Elements(EXITED_STATUSES) = ValidatorStatus
    /\ Cardinality(ValidatorStatus) = 9

C10_Witness ==
    /\ Len(statuses) = 2
    /\ Len(groups) = 2
    /\ groups[1] = {"ACTIVE"}
    /\ groups[2] = {"EXITED"}

(* the path of the validators request for the arguments of a read *)
ValidatorsPath(a) ==
    CASE a.validator_ids = <<"100", "200">> /\ a.state_id \in {"head", Omitted}
           -> "/eth/v1/beacon/states/head/validators?id=100&id=200"
      [] a.validator_ids = <<"100", "200">> /\ a.state_id = "finalized"
           -> "/eth/v1/beacon/states/finalized/validators?id=100&id=200"
      [] a.validator_ids = <<"7">> /\ a.state_id \in {"head", Omitted}
           -> "/eth/v1/beacon/states/head/validators?id=7"
      [] a.validator_ids = <<"7">> /\ a.state_id = "finalized"
           -> "/eth/v1/beacon/states/finalized/validators?id=7"

(* C11: get_validators_by_ids with a non-empty list of identifiers builds *)
(* the one path /eth/v1/beacon/states/{state_id}/validators with the      *)
(* parameter id once per identifier, in input order, state_id being head  *)
(* when it is not given; every GET of the call is for that path and the   *)
(* first one goes to the first endpoint of the list.                      *)
C11_ValidatorsPathPrimaryFirst ==
    \A c \in Calls :
        (op[c] = "read" /\ Len(args[c].validator_ids) > 0) =>
            /\ data[c].path = ValidatorsPath(args[c])
            /\ \A k \in 1..Len(Sent(c)) :
                  /\ Sent(c)[k].method = "GET"
                  /\ Sent(c)[k].uri =
                         urljoin(Sent(c)[k].url, ValidatorsPath(args[c]))
            /\ Len(Sent(c)) > 0 =>
                  (Sent(c)[1].i = 0 /\ Sent(c)[1].url = base_urls[1])

C11_Witness ==
    \E c \in Calls :
        /\ op[c] = "read"
        /\ args[c].validator_ids = <<"100", "200">>
        /\ args[c].state_id = Omitted
        /\ Len(base_urls) >= 2
        /\ base_urls[1] # base_urls[2]
        /\ Len(Sent(c)) = 1
        /\ Sent(c)[1].url = base_urls[1]

(* an error-level record of the endpoint and the error of a request *)
ErrorRecordOf(a) == [level |-> "ERROR", url |-> a.url, error |-> a.error]

(* C12, as stated: every recoverable failure of a request of a read or a  *)
(* write is logged at error level with the endpoint and the error, the    *)
(* failure of the last endpoint included.                                 *)
C12_EveryFailureLogged ==
    \A c \in Calls :
        \A k \in 1..Len(Sent(c)) :
            FailedRecoverably(Sent(c)[k]) =>
                \E j \in 1..Len(log[c]) : log[c][j] = ErrorRecordOf(Sent(c)[k])

(* the requests that failed recoverably at an endpoint that is not the    *)
(* last of the list                                                       *)
FailedBeforeLast(c) ==
    {k \in 1..Len(Sent(c)) :
        FailedRecoverably(Sent(c)[k]) /\ Sent(c)[k].i < Len(base_urls) - 1}

(* C12, amended: every recoverable failure of a request to an endpoint    *)
(* that is not the last of the list is logged once at error level with    *)
(* the endpoint and the error, in a read and in a write; the failure of   *)
(* the last endpoint is re-raised to the caller and not logged.           *)
C12_FailuresBeforeLastLogged ==
    \A c \in Calls :
        /\ Len(log[c]) = Cardinality(FailedBeforeLast(c))
        /\ \A k \in FailedBeforeLast(c) :
              k <= Len(log[c]) /\ log[c][k] = ErrorRecordOf(Sent(c)[k])

C12_Witness ==
    \E c \in Calls :
        /\ op[c] = "write"
        /\ Len(base_urls) = 2
        /\ Finished(c)
        /\ result[c].kind = "raise"
        /\ FailedRecoverably(Sent(c)[1])
        /\ FailedRecoverably(Sent(c)[2])
        /\ Len(log[c]) = 1

(* the request was answered by an error outside the recoverable set *)
FailedUnrecoverably(a) ==
    a.done /\ a.error # NoError /\ a.error.type \notin AiohttpRecoveredErrors

(* C13: an error outside the recoverable set raised by a request to any   *)
(* endpoint, the last or not, ends the call at once with that error: no   *)
(* request follows it and the loop logs nothing for it.                   *)
C13_UnrecoverablePropagates ==
    \A c \in Calls :
        \A k \in 1..Len(Sent(c)) :
            FailedUnrecoverably(Sent(c)[k]) =>
                /\ Finished(c)
                /\ result[c] = Raise(Sent(c)[k].error)
                /\ k = Len(Sent(c))
                /\ Len(log[c]) = k - 1
                /\ \A j \in 1..Len(log[c]) :
                      log[c][j].error # Sent(c)[k].error

C13_Witness ==
    \E c \in Calls :
        /\ Len(base_urls) = 3
        /\ Len(Sent(c)) = 2
        /\ Sent(c)[2].error.type = "MemoryError"
        /\ Finished(c)
        /\ Len(log[c]) = 1

(* C14: every request of a write goes through a session of its own, never *)
(* through the session given at construction; the session is open while   *)
(* the request is in flight and closed when it ends, so a write that      *)
(* returned or raised has no session open.                                *)
C14_WriteSessionsFreshAndClosed ==
    \A c \in Calls :
        op[c] = "write" =>
            /\ \A k \in 1..Len(Sent(c)) :
                  /\ Sent(c)[k].session = FreshSession
                  /\ Sent(c)[k].session # SharedSession
            /\ freshOpen[c] = Cardinality(InFlight(c))
            /\ Finished(c) => freshOpen[c] = 0

C14_Witness ==
    \E c \in Calls :
        /\ op[c] = "write"
        /\ session = SharedSession
        /\ Len(Sent(c)) = 3
        /\ Finished(c)
        /\ freshOpen[c] = 0

(* C16: a call cancelled while a request is in flight ends with the       *)
(* cancellation: the request is its last, no endpoint is contacted after  *)
(* it, nothing is logged for it and no session of a write stays open.     *)
C16_CancellationEndsCall ==
    \A c \in Calls :
        \A k \in 1..Len(Sent(c)) :
            Sent(c)[k].error.type = "CancelledError" =>
                /\ Finished(c)
                /\ result[c] = Raise(Sent(c)[k].error)
                /\ k = Len(Sent(c))
                /\ Len(log[c]) = k - 1
                /\ freshOpen[c] = 0

C16_Witness ==
    \E c \in Calls :
        /\ Len(base_urls) = 3
        /\ Len(Sent(c)) = 1
        /\ Sent(c)[1].error.type = "CancelledError"
        /\ Finished(c)
        /\ log[c] = <<>>

(* C15: the session given at construction is never closed by the client: *)
(* it is open after any reads and writes on it, whether they returned,    *)
(* raised or were cancelled.                                              *)
C15_SharedSessionStaysOpen ==
    session # None => ~sharedClosed

C15_Witness ==
    /\ session = SharedSession
    /\ ~sharedClosed
    /\ \E c, d \in Calls :
          /\ op[c] = "read" /\ Finished(c) /\ result[c].kind = "raise"
          /\ Len(Sent(c)) = 2
          /\ Sent(c)[1].session = SharedSession
          /\ op[d] = "write" /\ Finished(d) /\ result[d].kind = "return"

(* the requests of call c are those of a sweep from the first endpoint   *)
(* on, built from the arguments of call c alone                          *)
SweepsFromPrimary(c) ==
    \A k \in 1..Len(Sent(c)) :
        /\ k <= Len(base_urls)
        /\ Sent(c)[k].i = k - 1
        /\ Sent(c)[k].url = base_urls[k]
        /\ Sent(c)[k].uri = urljoin(base_urls[k], data[c].path)
        /\ Sent(c)[k].json = data[c].json
        /\ Sent(c)[k].method = (IF op[c] = "read" THEN "GET" ELSE "POST")
        /\ \A j \in 1..(k - 1) : FailedRecoverably(Sent(c)[j])

(* C17: no step of a read or a write changes the endpoint list, the       *)
(* timeout or the session of the client, and every call, whatever other   *)
(* calls run with it or ran and failed before it, sends the requests of   *)
(* a sweep of its own from the first endpoint on.                         *)
C17_CallsAreIndependent ==
    /\ [](\A c \in Calls : SweepsFromPrimary(c))
    /\ [][config' = config]_vars

C17_Witness ==
    \E c, d \in Calls :
        /\ c # d
        /\ op[c] = "read" /\ op[d] = "read"
        /\ Len(Sent(c)) = 2 /\ InFlight(c) = {2}
        /\ Len(Sent(d)) = 1 /\ InFlight(d) = {1}
        /\ Sent(d)[1].url = base_urls[1]

(* the call returned what its last request, answered without error with *)
(* a status of the given set, brought back                                *)
ReturnedAnswerIn(c, ok) ==
    /\ Len(Sent(c)) > 0
    /\ LastSent(c).done
    /\ LastSent(c).error = NoError
    /\ LastSent(c).status \in ok
    /\ op[c] = "read" =>
          (IsJson(LastSent(c).body) /\ result[c].value = Decode(LastSent(c).body))
    /\ op[c] = "write" => result[c].value = NoneValue

(* C18, as stated: on a non-empty endpoint list a read returns only the   *)
(* decoded body of a 2xx response of the endpoint it contacted last, and  *)
(* a write returns only after a 2xx response of the endpoint it contacted *)
(* last.                                                                  *)
C18_ReturnsOnly2xx ==
    \A c \in Calls :
        (Finished(c) /\ result[c].kind = "return" /\ Len(base_urls) > 0)
            => ReturnedAnswerIn(c, 200..299)

(* C18, amended: a status of 400 or above is never reported as success;   *)
(* on a non-empty endpoint list a read returns only the decoded body of a *)
(* response with a status below 400 of the endpoint it contacted last,    *)
(* and a write returns only after a response with a status below 400 of   *)
(* the endpoint it contacted last.                                        *)
C18_ReturnsOnlyBelow400 ==
    \A c \in Calls :
        (Finished(c) /\ result[c].kind = "return" /\ Len(base_urls) > 0)
            => ReturnedAnswerIn(c, 100..399)

C18_Witness ==
    \E c \in Calls :
        /\ op[c] = "read"
        /\ Len(base_urls) = 3
        /\ Len(Sent(c)) = 2
        /\ Sent(c)[1].status = 400
        /\ Sent(c)[1].error.type = "ClientResponseError"
        /\ Sent(c)[2].status = 200
        /\ Finished(c)
        /\ result[c].kind = "return"

(* call c sent at most one request per position of the list, and has an *)
(* outcome exactly when it has ended                                      *)
OneRequestPerEndpoint(c) ==
    /\ Len(Sent(c)) <= Len(base_urls)
    /\ \A j, k \in 1..Len(Sent(c)) : j # k => Sent(c)[j].i # Sent(c)[k].i
    /\ \A k \in 1..Len(Sent(c)) : Sent(c)[k].i \in 0..(Len(base_urls) - 1)
    /\ Finished(c) <=> result[c].kind \in {"return", "raise"}
    /\ ~Finished(c) => result[c] = NoResult

(* C19: when every request in flight is answered, every read and write    *)
(* that was started ends, with one outcome (a return or a raise) that     *)
(* does not change afterwards, after at most len(base_urls) requests,     *)
(* none of them to a position of the list already tried.                  *)
C19_CallTerminates ==
    /\ [](\A c \in Calls : OneRequestPerEndpoint(c))
    /\ [][\A c \in Calls : Finished(c) =>
             (Finished(c)' /\ result'[c] = result[c]
              /\ attempts'[c] = attempts[c])]_vars
    /\ \A c \in Calls : (op[c] # "none") ~> Finished(c)

C19_Witness ==
    \E c \in Calls :
        /\ Len(base_urls) = 3
        /\ Len(Sent(c)) = 3
        /\ Finished(c)
        /\ result[c].kind = "raise"
        /\ Sent(c)[3].i = 2

====
